---- MODULE Spec2Model ----
(***************************************************************************)
(* Regime detection and macro indicator engine of copinance-os.            *)
(*                                                                         *)
(* Two state machines share this module:                                   *)
(*   SpecMacro  MacroRegimeIndicatorsTool.execute, one step per awaited    *)
(*              provider call, the providers answering nondeterministic-   *)
(*              ally (a value or an exception);                            *)
(*   Spec       the rule based tools (trend, volatility, cycles) and the   *)
(*              pure helpers of rule_based.py, applied to inputs drawn     *)
(*              from bounded sets.                                         *)
(***************************************************************************)
EXTENDS Integers, Sequences, FiniteSets, TLC

VARIABLES
    mpc,       \* macro execute: "idle", "running" or "done"
    include,   \* categories requested by include_rates/_credit/_commodities
    cur,       \* category whose block is running
    stage,     \* position inside the block: "health", "primary", "fallback"
    idx,       \* index of the next series / proxy symbol to fetch
    out,       \* partial result of the block (primary series or proxy counts)
    health,    \* per category: what is_available() answered in its block
    data,      \* the data dict being filled by execute
    envelope,  \* what execute handed to its caller
    calls,     \* provider calls issued so far, in order
    op,        \* rule based side: last operation applied
    args,      \* its arguments
    ret,       \* its result
    _container,  \* container registry: the module global
    containers,  \* every Container instance built so far
    last         \* the last registry call and what it returned

macroVars == <<mpc, include, cur, stage, idx, out, health, data, envelope, calls>>
regimeVars == <<op, args, ret>>
containerVars == <<_container, containers, last>>
vars == <<mpc, include, cur, stage, idx, out, health, data, envelope, calls, op, args, ret,
          _container, containers, last>>

(***************************************************************************)
(* Bounds of the model.                                                    *)
(***************************************************************************)
MaxProxyPoints == 2

(***************************************************************************)
(* Macro aggregator: configuration.                                        *)
(***************************************************************************)
Categories == <<"rates", "credit", "commodities">>

CategorySet == {"rates", "credit", "commodities"}

\* default lookback_points of _series_metrics
LookbackPoints == 20

\* absent dict entry / error=None
Absent == "<absent>"

\* str(e) of an exception a provider raises: it may be the empty string
ErrMsgs == {"", "provider error"}

FredSeries(c) ==
    CASE c = "rates" ->
            <<"10y_nominal", "2y_nominal", "3m_nominal", "10y_real",
              "10y_breakeven", "10y2y_curve", "10y3m_curve">>
      [] c = "credit" -> <<"hy_oas_bps", "ig_oas_bps">>
      [] c = "commodities" -> <<"wti_spot">>

ProxySymbols(c) ==
    CASE c = "rates" -> <<"^TNX">>
      [] c = "credit" -> <<"HYG", "LQD">>
      [] c = "commodities" -> <<"USO">>

\* the series whose 20-observation change drives the block's interpretation
DrivingSeries(c) ==
    CASE c = "rates" -> "10y_nominal"
      [] c = "credit" -> "hy_oas_bps"
      [] c = "commodities" -> "wti_spot"

\* What a primary fetch can return: n points, and (for the driving series
\* with more than 20 points) the change over the last 20 observations, in
\* basis points for rates and credit, in percent for commodities.
PrimaryCounts == {0, LookbackPoints + 1}

ChangeChoices(c) ==
    CASE c = "rates" -> {-16, -15, 0, 15, 16}
      [] c = "credit" -> {-11, 0}
      [] c = "commodities" -> {-6, 0, 6}

FetchResults(c, key) ==
    {[n |-> n, chg |-> g] : n \in PrimaryCounts, g \in ChangeChoices(c)}
    \ {r \in [n : PrimaryCounts, chg : ChangeChoices(c)] :
          r.chg # 0 /\ (key # DrivingSeries(c) \/ r.n <= LookbackPoints)}

(***************************************************************************)
(* _series_metrics(points): every point carries a value here.              *)
(***************************************************************************)
SeriesMetrics(pts) ==
    IF pts.n = 0
    THEN [available |-> FALSE, data_points |-> 0, has_change |-> FALSE,
          change |-> 0, error |-> "No data points"]
    ELSE [available |-> TRUE, data_points |-> pts.n,
          has_change |-> pts.n > LookbackPoints,
          change |-> IF pts.n > LookbackPoints THEN pts.chg ELSE 0,
          error |-> Absent]

Abs(x) == IF x < 0 THEN -x ELSE x

Min(a, b) == IF a < b THEN a ELSE b

Max(a, b) == IF a > b THEN a ELSE b

(***************************************************************************)
(* _series_metrics on the points themselves: a point has a timestamp (its  *)
(* position) and a value, or no value; the result is the dict with the     *)
(* set of its keys.                                                        *)
(***************************************************************************)
MaxSeriesPoints == 23

ValueShapes == {"flat", "up", "down", "bent", "unset"}

ValueAt(shape, i) ==
    CASE shape = "flat" -> 400
      [] shape = "up" -> 400 + i
      [] shape = "down" -> 500 - 3 * i
      [] shape = "bent" -> 400 + i * i
      [] shape = "unset" -> 0

Points(shape, n) ==
    [i \in 1..n |-> [timestamp |-> i, value |-> ValueAt(shape, i),
                     has_value |-> shape # "unset"]]

HasValue(p) == p.has_value

NoLatest == [timestamp |-> 0, value |-> 0]

\* the metrics with the delta attached from lookback_points points on
SeriesMetricsOfInclusive(points, lookback_points) ==
    LET pts == SelectSeq(points, HasValue)
        k == Len(pts)
    IN IF Len(points) = 0
       THEN [keys |-> {"available", "error"}, available |-> FALSE,
             error |-> "No data points", latest |-> NoLatest,
             data_points |-> 0, change_20d |-> 0]
       ELSE IF k = 0
       THEN [keys |-> {"available", "error"}, available |-> FALSE,
             error |-> "No valid values", latest |-> NoLatest,
             data_points |-> 0, change_20d |-> 0]
       ELSE [keys |-> {"available", "latest", "data_points"}
                        \cup (IF k >= lookback_points THEN {"change_20d"} ELSE {}),
             available |-> TRUE, error |-> Absent,
             latest |-> [timestamp |-> pts[k].timestamp, value |-> pts[k].value],
             data_points |-> k,
             change_20d |-> IF k >= lookback_points
                            THEN pts[k].value - pts[Max(1, k - lookback_points)].value
                            ELSE 0]

\* _series_metrics(points, lookback_points)
SeriesMetricsOf(points, lookback_points) ==
    LET pts == SelectSeq(points, HasValue)
        k == Len(pts)
    IN IF Len(points) = 0
       THEN [keys |-> {"available", "error"}, available |-> FALSE,
             error |-> "No data points", latest |-> NoLatest,
             data_points |-> 0, change_20d |-> 0]
       ELSE IF k = 0
       THEN [keys |-> {"available", "error"}, available |-> FALSE,
             error |-> "No valid values", latest |-> NoLatest,
             data_points |-> 0, change_20d |-> 0]
       ELSE [keys |-> {"available", "latest", "data_points"}
                        \cup (IF k > lookback_points THEN {"change_20d"} ELSE {}),
             available |-> TRUE, error |-> Absent,
             latest |-> [timestamp |-> pts[k].timestamp, value |-> pts[k].value],
             data_points |-> k,
             change_20d |-> IF k > lookback_points
                            THEN pts[k].value - pts[k - lookback_points].value
                            ELSE 0]

\* the rates rule with the 15 bps boundary left out of "steady"
InterpretationExclusive(c, series) ==
    LET m == series[DrivingSeries(c)] IN
    IF ~(m.available /\ m.has_change) THEN Absent
    ELSE CASE c = "rates" ->
                 IF Abs(m.change) < 15 THEN "steady"
                 ELSE IF m.change > 15 THEN "rising" ELSE "falling"
           [] c = "credit" ->
                 IF m.change < -10 THEN "tightening" ELSE "widening_or_flat"
           [] c = "commodities" ->
                 IF m.change < -5 THEN "cooling"
                 ELSE IF m.change > 5 THEN "heating" ELSE "flat"

\* the "interpretation" entry of a primary block, Absent when not attached;
\* the change of a rates series is kept in basis points: a delta of k
\* hundredths of a percent is float(delta) * 100.0 = k bps
Interpretation(c, series) ==
    LET m == series[DrivingSeries(c)] IN
    IF ~(m.available /\ m.has_change) THEN Absent
    ELSE CASE c = "rates" ->
                 IF Abs(m.change) <= 15 THEN "steady"
                 ELSE IF m.change > 15 THEN "rising" ELSE "falling"
           [] c = "credit" ->
                 IF m.change < -10 THEN "tightening" ELSE "widening_or_flat"
           [] c = "commodities" ->
                 IF m.change < -5 THEN "cooling"
                 ELSE IF m.change > 5 THEN "heating" ELSE "flat"

\* "long_duration_pressure" of the rates interpretation, Absent elsewhere
LongDurationPressure(c, series) ==
    LET m == series[DrivingSeries(c)] IN
    IF c # "rates" \/ ~(m.available /\ m.has_change) THEN Absent
    ELSE IF Abs(m.change) <= 15 THEN "muted" ELSE "elevated"

EmptyMap == [k \in {} |-> 0]

\* a primary block that counts as available only if some series has data
PrimaryBlockNeedsData(c, series) ==
    [available |-> \E k \in DOMAIN series : series[k].available,
     source |-> "fred", series |-> series,
     interpretation |-> Interpretation(c, series),
     pressure |-> LongDurationPressure(c, series), error |-> Absent]

PrimaryBlock(c, series) ==
    [available |-> TRUE, source |-> "fred", series |-> series,
     interpretation |-> Interpretation(c, series),
     pressure |-> LongDurationPressure(c, series), error |-> Absent]

ProxyUnavailable(msg) ==
    [available |-> FALSE, source |-> "yfinance", series |-> EmptyMap,
     interpretation |-> Absent, pressure |-> Absent, error |-> msg]

\* a proxy result carrying the tag of the primary source
ProxyAvailableTaggedPrimary(key, n) ==
    [available |-> TRUE, source |-> "fred",
     series |-> (key :> [available |-> TRUE, data_points |-> n,
                         has_change |-> FALSE, change |-> 0, error |-> Absent]),
     interpretation |-> Absent, pressure |-> Absent, error |-> Absent]

ProxyAvailable(key, n) ==
    [available |-> TRUE, source |-> "yfinance",
     series |-> (key :> [available |-> TRUE, data_points |-> n,
                         has_change |-> FALSE, change |-> 0, error |-> Absent]),
     interpretation |-> Absent, pressure |-> Absent, error |-> Absent]

\* the fallback part of a block once every proxy fetch returned; counts[i]
\* is the number of prices with a close of the i-th proxy symbol
ProxyBlock(c, counts) ==
    CASE c = "rates" ->
            IF counts[1] < 2 THEN ProxyUnavailable("No ^TNX data")
            ELSE ProxyAvailable("10y_nominal_proxy", counts[1])
      [] c = "credit" ->
            IF counts[1] = 0 \/ counts[2] = 0
            THEN ProxyUnavailable("No HYG/LQD data")
            ELSE ProxyAvailable("hyg_lqd_ratio", Min(counts[1], counts[2]))
      [] c = "commodities" ->
            IF counts[1] < 2 THEN ProxyUnavailable("No USO data")
            ELSE ProxyAvailable("uso_proxy", counts[1])

(***************************************************************************)
(* execute: the envelope (ToolResult) and the walk over the categories.    *)
(***************************************************************************)
NoEnvelope ==
    [outcome |-> "none", success |-> FALSE, data_none |-> TRUE,
     data |-> EmptyMap, error |-> Absent]

SuccessEnvelope(d) ==
    [outcome |-> "returned", success |-> TRUE, data_none |-> FALSE,
     data |-> d, error |-> Absent]

\* a handler that lets the exception through to the caller
ExecuteExceptPropagates(msg) ==
    [outcome |-> "raised", success |-> FALSE, data_none |-> TRUE,
     data |-> EmptyMap, error |-> Absent]

\* the except clause of execute
ExecuteExcept(msg) ==
    [outcome |-> "returned", success |-> FALSE, data_none |-> TRUE,
     data |-> EmptyMap,
     error |-> IF msg = "" THEN "Failed to get macro regime indicators: "
               ELSE "Failed to get macro regime indicators: provider error"]

\* a provider call of the log: the block that issued it, the method, whether
\* it raised, and what it returned otherwise (is_available: the boolean as
\* 0/1, get_historical_data: the number of prices, else 0)
Call(c, method, n) == [cat |-> c, call |-> method, raised |-> FALSE, n |-> n]

RaisedCall(c, method) == [cat |-> c, call |-> method, raised |-> TRUE, n |-> 0]

Position(c) == CHOOSE i \in 1..3 : Categories[i] = c

Later(c, inc) == {d \in inc : Position(d) > Position(c)}

FirstOf(s) == CHOOSE d \in s : \A e \in s : Position(d) <= Position(e)

\* an exception reached execute's try block: the call ends with a failure
Raise(msg) ==
    /\ mpc' = "done"
    /\ envelope' = ExecuteExcept(msg)
    /\ cur' = "none"
    /\ stage' = "none"
    /\ idx' = 0
    /\ out' = EmptyMap
    /\ data' = EmptyMap

\* the block of category cur returned r: store it, go on with the next one
BlockReturns(r) ==
    LET d == data @@ (cur :> r) IN
    /\ idx' = 0
    /\ out' = EmptyMap
    /\ IF Later(cur, include) = {}
       THEN /\ mpc' = "done"
            /\ envelope' = SuccessEnvelope(d)
            /\ cur' = "none"
            /\ stage' = "none"
            /\ data' = d
       ELSE /\ mpc' = "running"
            /\ envelope' = envelope
            /\ cur' = FirstOf(Later(cur, include))
            /\ stage' = "health"
            /\ data' = d

MacroInit ==
    /\ mpc = "idle"
    /\ include = {}
    /\ cur = "none"
    /\ stage = "none"
    /\ idx = 0
    /\ out = EmptyMap
    /\ health = [c \in CategorySet |-> "none"]
    /\ data = EmptyMap
    /\ envelope = NoEnvelope
    /\ calls = <<>>

\* execute, from the call up to its first await
MacroExecute ==
    /\ mpc = "idle"
    /\ \E inc \in SUBSET CategorySet :
          /\ include' = inc
          /\ health' = health
          /\ calls' = calls
          /\ idx' = 0
          /\ out' = EmptyMap
          /\ data' = EmptyMap
          /\ IF inc = {}
             THEN /\ mpc' = "done"
                  /\ envelope' = SuccessEnvelope(EmptyMap)
                  /\ cur' = "none"
                  /\ stage' = "none"
             ELSE /\ mpc' = "running"
                  /\ envelope' = envelope
                  /\ cur' = FirstOf(inc)
                  /\ stage' = "health"
    /\ UNCHANGED <<regimeVars, containerVars>>

\* a block that tries the primary source whatever the health check said
StageAfterHealthAlwaysPrimary(avail) == "primary"

\* "if fred_available:" the primary try comes first, else the proxies
StageAfterHealth(avail) == IF avail THEN "primary" ELSE "fallback"

\* await is_available(), then get_provider_name(), at the top of a block,
\* both outside the block's try statements; has_api_key only selects the
\* log message and is left out
HealthCheck ==
    /\ mpc = "running"
    /\ stage = "health"
    /\ include' = include
    /\ \/ \E msg \in ErrMsgs :
             /\ calls' = Append(calls, RaisedCall(cur, "is_available"))
             /\ health' = [health EXCEPT ![cur] = "raised"]
             /\ Raise(msg)
       \/ \E avail \in BOOLEAN :
             /\ health' = [health EXCEPT ![cur] = IF avail THEN "true" ELSE "false"]
             /\ \/ \E msg \in ErrMsgs :
                      /\ calls' = calls \o
                            <<Call(cur, "is_available", IF avail THEN 1 ELSE 0),
                              RaisedCall(cur, "get_provider_name")>>
                      /\ Raise(msg)
                \/ /\ calls' = calls \o
                         <<Call(cur, "is_available", IF avail THEN 1 ELSE 0),
                           Call(cur, "get_provider_name", 0)>>
                   /\ mpc' = mpc
                   /\ envelope' = envelope
                   /\ cur' = cur
                   /\ data' = data
                   /\ idx' = 1
                   /\ out' = EmptyMap
                   /\ stage' = StageAfterHealth(avail)
    /\ UNCHANGED <<regimeVars, containerVars>>

\* await get_time_series(series_id, ...) inside the block's first try
GetTimeSeries ==
    /\ mpc = "running"
    /\ stage = "primary"
    /\ include' = include
    /\ health' = health
    /\ LET key == FredSeries(cur)[idx] IN
       \/ \* the fetch raises: the except clause drops out, the proxies follow
          /\ calls' = Append(calls, RaisedCall(cur, "get_time_series"))
          /\ mpc' = mpc
          /\ envelope' = envelope
          /\ cur' = cur
          /\ data' = data
          /\ stage' = "fallback"
          /\ idx' = 1
          /\ out' = EmptyMap
       \/ \E pts \in FetchResults(cur, key) :
             LET series == out @@ (key :> SeriesMetrics(pts)) IN
             /\ calls' = Append(calls, Call(cur, "get_time_series", 0))
             /\ IF idx < Len(FredSeries(cur))
                THEN /\ mpc' = mpc
                     /\ envelope' = envelope
                     /\ cur' = cur
                     /\ data' = data
                     /\ stage' = stage
                     /\ idx' = idx + 1
                     /\ out' = series
                ELSE BlockReturns(PrimaryBlock(cur, series))
    /\ UNCHANGED <<regimeVars, containerVars>>

\* await get_historical_data(symbol, ...) inside the block's second try
GetHistoricalData ==
    /\ mpc = "running"
    /\ stage = "fallback"
    /\ include' = include
    /\ health' = health
    /\ \/ \E msg \in ErrMsgs :
             /\ calls' = Append(calls, RaisedCall(cur, "get_historical_data"))
             /\ BlockReturns(ProxyUnavailable(msg))
       \/ \E n \in 0..MaxProxyPoints :
             LET counts == out @@ (idx :> n) IN
             /\ calls' = Append(calls, Call(cur, "get_historical_data", n))
             /\ IF idx < Len(ProxySymbols(cur))
                THEN /\ mpc' = mpc
                     /\ envelope' = envelope
                     /\ cur' = cur
                     /\ data' = data
                     /\ stage' = stage
                     /\ idx' = idx + 1
                     /\ out' = counts
                ELSE BlockReturns(ProxyBlock(cur, counts))
    /\ UNCHANGED <<regimeVars, containerVars>>

RegimeInit ==
    /\ op = "none"
    /\ args = EmptyMap
    /\ ret = EmptyMap

(***************************************************************************)
(* Container registry (containers/container.py).  A Container instance is  *)
(* its index in containers; the record kept for it holds the FRED key it   *)
(* was overridden with (Absent for none), who built it and whether a       *)
(* caller ever passed it to set_container.  _container is 0 for None, else *)
(* the index of the global instance.                                       *)
(***************************************************************************)
MaxContainers == 4

\* fred_api_key arguments: None, or a key of the caller
FredApiKeys == {Absent, "key-a", "key-b"}

NoCall == [call |-> "none", key |-> Absent, before |-> 0, returned |-> 0,
           created |-> FALSE]

\* state after the module is imported: container = get_container()
ContainerInit ==
    /\ containers = <<[key |-> Absent, made_by |-> "get_container",
                      installed |-> FALSE]>>
    /\ _container = 1
    /\ last = NoCall

GetContainerCall(fred_api_key) ==
    IF _container = 0 \/ fred_api_key # Absent
    THEN /\ Len(containers) < MaxContainers
         /\ containers' = Append(containers,
                [key |-> fred_api_key, made_by |-> "get_container",
                 installed |-> FALSE])
         /\ _container' = IF _container = 0 THEN Len(containers) + 1
                          ELSE _container
         /\ last' = [call |-> "get_container", key |-> fred_api_key,
                     before |-> _container,
                     returned |-> Len(containers) + 1, created |-> TRUE]
    ELSE /\ UNCHANGED <<_container, containers>>
         /\ last' = [call |-> "get_container", key |-> fred_api_key,
                     before |-> _container, returned |-> _container,
                     created |-> FALSE]

GetContainer ==
    /\ \E fred_api_key \in FredApiKeys : GetContainerCall(fred_api_key)
    /\ UNCHANGED <<macroVars, regimeVars>>

\* set_container(container) with an instance the caller built itself
SetContainerNew ==
    /\ Len(containers) < MaxContainers
    /\ containers' = Append(containers,
            [key |-> Absent, made_by |-> "caller", installed |-> TRUE])
    /\ _container' = Len(containers) + 1
    /\ last' = [call |-> "set_container", key |-> Absent,
                before |-> _container, returned |-> 0, created |-> FALSE]
    /\ UNCHANGED <<macroVars, regimeVars>>

\* set_container(container) with an instance obtained earlier
SetContainerExisting ==
    /\ \E c \in 1..Len(containers) :
        /\ _container' = c
        /\ containers' = [containers EXCEPT ![c].installed = TRUE]
        /\ last' = [call |-> "set_container", key |-> Absent,
                    before |-> _container, returned |-> 0, created |-> FALSE]
    /\ UNCHANGED <<macroVars, regimeVars>>

ResetContainer ==
    /\ _container' = 0
    /\ last' = [call |-> "reset_container", key |-> Absent,
                before |-> _container, returned |-> 0, created |-> FALSE]
    /\ UNCHANGED <<containers, macroVars, regimeVars>>

NextContainer ==
    \/ GetContainer
    \/ SetContainerNew
    \/ SetContainerExisting
    \/ ResetContainer

InitMacro == MacroInit /\ RegimeInit /\ ContainerInit

NextMacro ==
    \/ MacroExecute
    \/ HealthCheck
    \/ GetTimeSeries
    \/ GetHistoricalData

SpecMacro == InitMacro /\ [][NextMacro]_vars

(***************************************************************************)
(* Rule based tools: inputs.                                               *)
(*                                                                         *)
(* A price history is one of a few shapes of a given length; prices are    *)
(* positive (PricePoint.close).  Quantities the code computes with         *)
(* logarithms and square roots are not computed here: the volatility       *)
(* scaled momentum of the trend tool is an input constrained to the sign   *)
(* of the price change, and a rolling volatility is 0 on a constant        *)
(* window and otherwise given by one of a few positive profiles.           *)
(***************************************************************************)
MaxPoints == 60

MaxVol == 3

MaxHist == 4

Shapes == {"up", "down", "flat", "vee"}

PriceAt(shape, i) ==
    CASE shape = "up" -> 100 + 2 * (i - 1)
      [] shape = "down" -> 300 - 2 * (i - 1)
      [] shape = "flat" -> 100
      [] shape = "vee" -> 100 + 2 * Abs(i - 10)
      [] shape = "peak" -> 150 - 2 * Abs(i - 25)
      [] shape = "trough" -> 50 + 2 * Abs(i - 25)

\* the histories given to the cycle tool: also a rise that turns down and a
\* fall that turns up
CycleShapes == Shapes \cup {"peak", "trough"}

Series(shape, n) == [i \in 1..n |-> PriceAt(shape, i)]

\* requested short_ma_period / long_ma_period (defaults 50 / 200)
ShortChoices == {5, 9, 10, 20, 50}

LongChoices == {8, 20, 50, 200}

\* requested volatility_window (default 20)
VolWindowChoices == {2, 5, 7, 8, 9, 20}

\* volatility scaled momentum, in hundredths
Momenta == {-101, -100, -26, -25, 0, 25, 26, 100, 101}

Sign(x) == IF x > 0 THEN 1 ELSE IF x < 0 THEN -1 ELSE 0

SumRange(f, lo, hi) ==
    LET S[i \in (lo - 1)..hi] == IF i < lo THEN 0 ELSE S[i - 1] + f[i]
    IN S[hi]

(***************************************************************************)
(* _calculate_log_returns.  Prices are 0, negative or a power of two, and  *)
(* logarithms are counted in units of ln 2, so that log(p) is exact.       *)
(***************************************************************************)
MaxPrices == 4

PriceChoices == {-2, 0, 1, 2, 4}

\* math.log(p) for p > 0, in units of ln 2
Log(p) ==
    CASE p = 1 -> 0
      [] p = 2 -> 1
      [] p = 4 -> 2

PriceLists == UNION {[1..k -> PriceChoices] : k \in 0..MaxPrices}

\* entry i of the result: log_prices.diff() past its first (NaN) entry
CalculateLogReturns(prices) ==
    LET log_prices == [i \in 1..Len(prices) |->
                          IF prices[i] > 0 THEN Log(prices[i]) ELSE 0]
    IN IF Len(prices) < 2 THEN << >>
       ELSE [i \in 1..(Len(prices) - 1) |-> log_prices[i + 1] - log_prices[i]]

(***************************************************************************)
(* _calculate_ewma_volatility.  The decay factor is kept in hundredths and *)
(* a variance as the exact fraction num / 100^scale; the annualised square *)
(* root of a variance is represented by the variance itself.               *)
(***************************************************************************)
\* default lambda_param (0.94), in hundredths
LambdaParam == 94

Pow100(k) ==
    LET P[j \in 0..k] == IF j = 0 THEN 1 ELSE 100 * P[j - 1]
    IN P[k]

\* ewma_variance after the loop has consumed log_returns[0..i-1] (1-based i):
\* the seed log_returns[0] ** 2, then lambda * previous + (1 - lambda) * r^2
EwmaVariance(log_returns, lambda_param) ==
    LET V[i \in 1..Len(log_returns)] ==
            IF i = 1 THEN log_returns[1] * log_returns[1]
            ELSE lambda_param * V[i - 1]
                 + (100 - lambda_param) * log_returns[i] * log_returns[i]
                   * Pow100(i - 2)
    IN [i \in 1..Len(log_returns) |-> [num |-> V[i], scale |-> i - 1]]

NoVol == [defined |-> FALSE, num |-> 0, scale |-> 0]

\* ewma_vols starts as [None] and gets one entry per loop turn i >= 1
CalculateEwmaVolatility(prices, lambda_param) ==
    LET log_returns == CalculateLogReturns(prices)
        v == EwmaVariance(log_returns, lambda_param)
    IN IF Len(prices) < 2 THEN [i \in 1..Len(prices) |-> NoVol]
       ELSE <<NoVol>> \o
            [i \in 1..(Len(log_returns) - 1) |->
                [defined |-> TRUE, num |-> v[i + 1].num,
                 scale |-> v[i + 1].scale]]

(***************************************************************************)
(* _calculate_moving_average: entry i is None before the window is filled, *)
(* else the mean of the trailing window, kept as the pair sum / window.    *)
(***************************************************************************)
CalculateMovingAverage(prices, window) ==
    [i \in 1..Len(prices) |->
        IF Len(prices) < window \/ i < window
        THEN [defined |-> FALSE, sum |-> 0, window |-> window]
        ELSE [defined |-> TRUE, sum |-> SumRange(prices, i - window + 1, i),
              window |-> window]]

\* a > b for two defined averages
MaGreater(a, b) == a.sum * b.window > b.sum * a.window

(***************************************************************************)
(* MarketRegimeDetectTrendTool.execute                                     *)
(***************************************************************************)
MinTrendPoints == 10

\* the adaptive step: [ok, short, long] from the data length and the request
TrendWindows(n, short_ma, long_ma) ==
    IF n < long_ma
    THEN IF n < short_ma
         THEN IF n < MinTrendPoints
              THEN [ok |-> FALSE, short |-> short_ma, long |-> long_ma]
              ELSE LET adjusted_short == Max(5, n \div 3) IN
                   [ok |-> TRUE, short |-> adjusted_short,
                    long |-> Max(adjusted_short + 5, n - 5)]
         ELSE [ok |-> TRUE, short |-> short_ma, long |-> Max(short_ma + 10, n - 5)]
    ELSE [ok |-> TRUE, short |-> short_ma, long |-> long_ma]

\* how the latest price and the two latest averages are ordered
MaOrdering(price, sma, lma) ==
    IF ~sma.defined \/ ~lma.defined THEN "undefined"
    ELSE IF price * sma.window > sma.sum /\ MaGreater(sma, lma) THEN "bull"
    ELSE IF price * sma.window < sma.sum /\ MaGreater(lma, sma) THEN "bear"
    ELSE "other"

\* the classification with the two thresholds of the bull branch exchanged
ClassifyTrendSwapped(ordering, m) ==
    CASE ordering = "undefined" -> [regime |-> "neutral", confidence |-> "low"]
      [] ordering = "bull" ->
            IF m > 100 THEN [regime |-> "bull", confidence |-> "medium"]
            ELSE IF m > 25 THEN [regime |-> "bull", confidence |-> "high"]
            ELSE [regime |-> "neutral", confidence |-> "low"]
      [] ordering = "bear" ->
            IF m < -100 THEN [regime |-> "bear", confidence |-> "high"]
            ELSE IF m < -25 THEN [regime |-> "bear", confidence |-> "medium"]
            ELSE [regime |-> "neutral", confidence |-> "low"]
      [] OTHER -> [regime |-> "neutral", confidence |-> "medium"]

\* the classification with the 1.0 thresholds included in the high tier
ClassifyTrendInclusive(ordering, m) ==
    CASE ordering = "undefined" -> [regime |-> "neutral", confidence |-> "low"]
      [] ordering = "bull" ->
            IF m >= 100 THEN [regime |-> "bull", confidence |-> "high"]
            ELSE IF m > 25 THEN [regime |-> "bull", confidence |-> "medium"]
            ELSE [regime |-> "neutral", confidence |-> "low"]
      [] ordering = "bear" ->
            IF m <= -100 THEN [regime |-> "bear", confidence |-> "high"]
            ELSE IF m < -25 THEN [regime |-> "bear", confidence |-> "medium"]
            ELSE [regime |-> "neutral", confidence |-> "low"]
      [] OTHER -> [regime |-> "neutral", confidence |-> "medium"]

\* regime and confidence from the ordering and the scaled momentum m
ClassifyTrend(ordering, m) ==
    CASE ordering = "undefined" -> [regime |-> "neutral", confidence |-> "low"]
      [] ordering = "bull" ->
            IF m > 100 THEN [regime |-> "bull", confidence |-> "high"]
            ELSE IF m > 25 THEN [regime |-> "bull", confidence |-> "medium"]
            ELSE [regime |-> "neutral", confidence |-> "low"]
      [] ordering = "bear" ->
            IF m < -100 THEN [regime |-> "bear", confidence |-> "high"]
            ELSE IF m < -25 THEN [regime |-> "bear", confidence |-> "medium"]
            ELSE [regime |-> "neutral", confidence |-> "low"]
      [] OTHER -> [regime |-> "neutral", confidence |-> "medium"]

TrendFailure(kind, suggestion) ==
    [success |-> FALSE, data_none |-> TRUE, error |-> kind,
     suggestion |-> suggestion,
     ordering |-> "undefined", regime |-> Absent, confidence |-> Absent,
     short_used |-> 0, long_used |-> 0, parameters_adjusted |-> FALSE,
     note |-> FALSE]

\* the except clause: error = str(e), metadata {"symbol"}
TrendExcept(msg) == TrendFailure(msg, FALSE)

\* parameters_adjusted derived from the short window alone
TrendExecuteShortOnly(prices, short_ma, long_ma, m) ==
    LET n == Len(prices)
        w == TrendWindows(n, short_ma, long_ma)
    IN IF n = 0 THEN TrendFailure("No historical data available", FALSE)
       ELSE IF ~w.ok THEN TrendFailure("Insufficient data for trend analysis", TRUE)
       ELSE LET sma == CalculateMovingAverage(prices, w.short)[n]
                lma == CalculateMovingAverage(prices, w.long)[n]
                ordering == MaOrdering(prices[n], sma, lma)
                c == ClassifyTrend(ordering, m)
                adjusted == w.short # short_ma
            IN [success |-> TRUE, data_none |-> FALSE, error |-> Absent,
                suggestion |-> FALSE,
                ordering |-> ordering, regime |-> c.regime,
                confidence |-> c.confidence,
                short_used |-> w.short, long_used |-> w.long,
                parameters_adjusted |-> adjusted, note |-> adjusted]

TrendExecute(prices, short_ma, long_ma, m) ==
    LET n == Len(prices)
        w == TrendWindows(n, short_ma, long_ma)
    IN IF n = 0 THEN TrendFailure("No historical data available", FALSE)
       ELSE IF ~w.ok THEN TrendFailure("Insufficient data for trend analysis", TRUE)
       ELSE LET sma == CalculateMovingAverage(prices, w.short)[n]
                lma == CalculateMovingAverage(prices, w.long)[n]
                ordering == MaOrdering(prices[n], sma, lma)
                c == ClassifyTrend(ordering, m)
                adjusted == w.short # short_ma \/ w.long # long_ma
            IN [success |-> TRUE, data_none |-> FALSE, error |-> Absent,
                suggestion |-> FALSE,
                ordering |-> ordering, regime |-> c.regime,
                confidence |-> c.confidence,
                short_used |-> w.short, long_used |-> w.long,
                parameters_adjusted |-> adjusted, note |-> adjusted]

(***************************************************************************)
(* Volatility: classification strategies.                                  *)
(***************************************************************************)
SumSeq(h) == SumRange(h, 1, Len(h))

\* the comparison with the bounds mean + stdev and mean - stdev included
SigmaCompareInclusive(v, h) ==
    LET L == Len(h)
        S == SumSeq(h)
        dev == [i \in 1..L |-> (L * h[i] - S) * (L * h[i] - S)]
        var == IF L > 1 THEN SumSeq(dev) ELSE 0
        d == L * v - S
    IN IF L = 0 THEN "ZeroDivisionError"
       ELSE IF d >= 0 /\ d * d * L >= var THEN "high"
       ELSE IF d <= 0 /\ d * d * L >= var THEN "low"
       ELSE "normal"

\* the mean +- stdev comparison of _classify_volatility_regime, in exact
\* arithmetic: with L = len(h) and S = sum(h), d = L * (v - mean) and
\* var = L^3 * variance, so v > mean + stdev iff d > 0 and d^2 * L > var
SigmaCompare(v, h) ==
    LET L == Len(h)
        S == SumSeq(h)
        dev == [i \in 1..L |-> (L * h[i] - S) * (L * h[i] - S)]
        var == IF L > 1 THEN SumSeq(dev) ELSE 0
        d == L * v - S
    IN IF L = 0 THEN "ZeroDivisionError"
       ELSE IF d > 0 /\ d * d * L > var THEN "high"
       ELSE IF d < 0 /\ d * d * L > var THEN "low"
       ELSE "normal"

\* _classify_volatility_regime
ClassifyVolatilityRegime(v, h) ==
    IF Len(h) = 0 THEN "normal" ELSE SigmaCompare(v, h)

\* sorted(h)[i], 0-based, IndexError outside 0..len-1
SortedAt(h, i) ==
    IF i < 0 \/ i >= Len(h) THEN [ok |-> FALSE, val |-> 0]
    ELSE [ok |-> TRUE,
          val |-> CHOOSE x \in {h[j] : j \in 1..Len(h)} :
                     /\ Cardinality({j \in 1..Len(h) : h[j] < x}) <= i
                     /\ i < Cardinality({j \in 1..Len(h) : h[j] <= x})]

\* the percentile lookup reading one entry too far
PercentileIndexPastEnd(len, tenths) == (len * tenths) \div 10 + 1

\* int(len(sorted_vols) * 0.8) and int(len(sorted_vols) * 0.2)
PercentileIndex(len, tenths) == (len * tenths) \div 10

\* _classify_volatility_regime_percentile
ClassifyVolatilityRegimePercentile(v, h) ==
    IF Len(h) = 0 THEN "normal"
    ELSE LET p80 == SortedAt(h, PercentileIndex(Len(h), 8))
             p20 == SortedAt(h, PercentileIndex(Len(h), 2))
         IN IF ~p80.ok \/ ~p20.ok THEN "IndexError"
            ELSE IF v >= p80.val THEN "high"
            ELSE IF v <= p20.val THEN "low"
            ELSE "normal"

(***************************************************************************)
(* _calculate_volatility and MarketRegimeDetectVolatilityTool.execute      *)
(***************************************************************************)
MinVolPoints == 10

VolProfiles == {"level", "rising", "falling"}

\* annualized stdev of the log-returns of a window that is not constant
ProfileVol(profile, i) ==
    CASE profile = "level" -> 20
      [] profile = "rising" -> 10 + i
      [] profile = "falling" -> 100 - i

\* the list with the first rolling value (position window + 1) kept
CalculateVolatilityFromWindow(prices, window, profile) ==
    [i \in 1..Len(prices) |->
        IF Len(prices) < window + 1 \/ i <= window \/ window < 2
        THEN [defined |-> FALSE, val |-> 0]
        ELSE [defined |-> TRUE,
              val |-> IF \A j \in (i - window)..i : prices[j] = prices[i]
                      THEN 0 ELSE ProfileVol(profile, i)]]

\* entry i (1-based) of the list: None up to position window + 1; the
\* rolling std() of a single return (window 1) is NaN, hence None as well
CalculateVolatility(prices, window, profile) ==
    [i \in 1..Len(prices) |->
        IF Len(prices) < window + 1 \/ i <= window + 1 \/ window < 2
        THEN [defined |-> FALSE, val |-> 0]
        ELSE [defined |-> TRUE,
              val |-> IF \A j \in (i - window)..i : prices[j] = prices[i]
                      THEN 0 ELSE ProfileVol(profile, i)]]

\* the adaptive step: [ok, window]
VolatilityWindow(n, vol_window) ==
    IF n < vol_window + 1
    THEN IF n < MinVolPoints
         THEN [ok |-> FALSE, window |-> vol_window]
         ELSE [ok |-> TRUE, window |-> Max(5, n - 5)]
    ELSE [ok |-> TRUE, window |-> vol_window]

VolFailure(kind, suggestion) ==
    [success |-> FALSE, data_none |-> TRUE, error |-> kind,
     suggestion |-> suggestion,
     regime |-> Absent, window_used |-> 0, valid |-> 0,
     parameters_adjusted |-> FALSE, note |-> FALSE]

\* the except clause: error = str(e), metadata {"symbol"}
VolatilityExcept(msg) == VolFailure(msg, FALSE)

VolatilityExecute(prices, vol_window, profile) ==
    LET n == Len(prices)
        w == VolatilityWindow(n, vol_window)
    IN IF n = 0 THEN VolFailure("No historical data available", FALSE)
       ELSE IF ~w.ok
       THEN VolFailure("Insufficient data for volatility analysis", TRUE)
       ELSE LET vols == CalculateVolatility(prices, w.window, profile)
                first == w.window + 2
                count == IF n >= first /\ vols[n].defined THEN n - first + 1 ELSE 0
                valid_vols == [k \in 1..count |-> vols[first + k - 1].val]
            IN IF count = 0
               THEN VolFailure("Could not calculate volatility from available data",
                               FALSE)
               ELSE [success |-> TRUE, data_none |-> FALSE, error |-> Absent,
                     suggestion |-> FALSE,
                     regime |-> ClassifyVolatilityRegime(valid_vols[count], valid_vols),
                     window_used |-> w.window, valid |-> count,
                     parameters_adjusted |-> w.window # vol_window,
                     note |-> w.window # vol_window]

(***************************************************************************)
(* MarketRegimeDetectCyclesTool.execute                                     *)
(***************************************************************************)
MinCyclePoints == 20

StandardCyclePoints == 50

VolumeShapes == {"steady", "swelling", "fading", "drying", "none"}

VolumeAt(shape, i) ==
    CASE shape = "steady" -> 1000
      [] shape = "swelling" -> 1000 + 100 * i
      [] shape = "fading" -> 10000 - 100 * i
      [] shape = "drying" -> 10000 - 150 * i
      [] shape = "none" -> 0

Volumes(shape, n) == [i \in 1..n |-> VolumeAt(shape, i)]

\* the adaptive step with the minimum tested one point too low
CycleWindowsLowerMinimum(n) ==
    IF n < StandardCyclePoints
    THEN IF n < MinCyclePoints - 1
         THEN [ok |-> FALSE, short |-> 0, long |-> 0]
         ELSE LET ma_short_period == Max(5, n \div 4) IN
              [ok |-> TRUE, short |-> ma_short_period,
               long |-> Max(ma_short_period + 5, n - 5)]
    ELSE [ok |-> TRUE, short |-> 20, long |-> 50]

\* the adaptive step: [ok, short, long]
CycleWindows(n) ==
    IF n < StandardCyclePoints
    THEN IF n < MinCyclePoints
         THEN [ok |-> FALSE, short |-> 0, long |-> 0]
         ELSE LET ma_short_period == Max(5, n \div 4) IN
              [ok |-> TRUE, short |-> ma_short_period,
               long |-> Max(ma_short_period + 5, n - 5)]
    ELSE [ok |-> TRUE, short |-> 20, long |-> 50]

SeqMax(f) == CHOOSE x \in {f[i] : i \in 1..Len(f)} : \A i \in 1..Len(f) : f[i] <= x

SeqMin(f) == CHOOSE x \in {f[i] : i \in 1..Len(f)} : \A i \in 1..Len(f) : f[i] >= x

\* price_position as the fraction num / den (50 when the range is zero)
PricePosition(prices) ==
    LET n == Len(prices)
        price_range == SeqMax(prices) - SeqMin(prices)
    IN IF price_range > 0
       THEN [num |-> (prices[n] - SeqMin(prices)) * 100, den |-> price_range]
       ELSE [num |-> 50, den |-> 1]

\* volume_ratio as the fraction num / den (1.0 when the average volume is 0)
VolumeRatio(volumes) ==
    LET n == Len(volumes)
        volume_window == Min(20, n \div 2)
        recent == SumRange(volumes, n - volume_window + 1, n)
        total == SumSeq(volumes)
    IN IF total > 0
       THEN [num |-> recent * n, den |-> volume_window * total]
       ELSE [num |-> 1, den |-> 1]

\* fraction q against the decimal t / 10
Above(q, t) == q.num * 10 > t * q.den

Below(q, t) == q.num * 10 < t * q.den

\* the decision tree with the position and volume tests tried first
CyclePhaseVolumeFirst(ordering, position, ratio) ==
    IF ordering = "undefined" THEN "transition"
    ELSE IF Above(position, 700) /\ Above(ratio, 11) THEN "distribution"
    ELSE IF Below(position, 300) /\ Below(ratio, 9) THEN "accumulation"
    ELSE IF ordering = "bull" /\ Above(position, 600) THEN "markup"
    ELSE IF ordering = "bear" /\ Below(position, 400) THEN "markdown"
    ELSE "transition"

\* the phase decision tree on the latest values
CyclePhase(ordering, position, ratio) ==
    IF ordering = "undefined" THEN "transition"
    ELSE IF ordering = "bull" /\ Above(position, 600) THEN "markup"
    ELSE IF ordering = "bear" /\ Below(position, 400) THEN "markdown"
    ELSE IF Above(position, 700) /\ Above(ratio, 11) THEN "distribution"
    ELSE IF Below(position, 300) /\ Below(ratio, 9) THEN "accumulation"
    ELSE "transition"

\* recent_trend / longer_trend over the given period
TrendOver(prices, period) ==
    LET n == Len(prices)
        p == Min(period, n - 1)
    IN IF prices[n] > prices[n - p + 1] THEN "up"
       ELSE IF n > p THEN "down" ELSE "neutral"

CycleFailure(kind, suggestion) ==
    [success |-> FALSE, data_none |-> TRUE, error |-> kind,
     suggestion |-> suggestion,
     phase |-> Absent, ordering |-> "undefined", short_used |-> 0,
     long_used |-> 0, regime_change |-> FALSE,
     parameters_adjusted |-> FALSE, note |-> FALSE]

\* the except clause: error = str(e), metadata {"symbol"}
CyclesExcept(msg) == CycleFailure(msg, FALSE)

CyclesExecute(prices, volumes) ==
    LET n == Len(prices)
        w == CycleWindows(n)
    IN IF n = 0 THEN CycleFailure("No historical data available", FALSE)
       ELSE IF ~w.ok
       THEN CycleFailure("Insufficient data for cycle analysis: need at least 20 data points",
                         TRUE)
       ELSE LET ma_20 == CalculateMovingAverage(prices, w.short)[n]
                ma_50 == CalculateMovingAverage(prices, w.long)[n]
                ordering == MaOrdering(prices[n], ma_20, ma_50)
                adjusted == w.short # 20 \/ w.long # 50
            IN [success |-> TRUE, data_none |-> FALSE, error |-> Absent,
                suggestion |-> FALSE,
                phase |-> CyclePhase(ordering, PricePosition(prices),
                                     VolumeRatio(volumes)),
                ordering |-> ordering,
                short_used |-> w.short, long_used |-> w.long,
                regime_change |-> TrendOver(prices, w.short) # TrendOver(prices, w.long),
                parameters_adjusted |-> adjusted, note |-> adjusted]

(***************************************************************************)
(* FredMacroeconomicProvider.  The provider holds an API key (None, empty  *)
(* or set) and creates its HTTP client on first use; the client either     *)
(* cannot be created, or its GET raises, or it answers with a status.  A   *)
(* response carries a list of observations whose "date" and "value" are    *)
(* strings or missing, as the FRED API sends them.                         *)
(***************************************************************************)
MaxObs == 3

ApiKeys == {Absent, "", "test-key"}

ClientBehaviours == {"client_raises", "get_raises", "status_500", "status_200"}

SeriesIds == {"DGS10", "DGS2"}

\* datetime.strptime(date_str, "%Y-%m-%d"): the date, or ValueError
ParseDate(date_str) ==
    CASE date_str = "2025-01-01" -> [ok |-> TRUE, val |-> <<2025, 1, 1>>]
      [] date_str = "2025-01-02" -> [ok |-> TRUE, val |-> <<2025, 1, 2>>]
      [] date_str = "2025-01-03" -> [ok |-> TRUE, val |-> <<2025, 1, 3>>]
      [] date_str = "2025-1-3" -> [ok |-> TRUE, val |-> <<2025, 1, 3>>]
      [] OTHER -> [ok |-> FALSE, val |-> <<0, 0, 0>>]

\* Decimal(value_str): the number in hundredths, or InvalidOperation
ParseDecimal(value_str) ==
    CASE value_str = "4.00" -> [ok |-> TRUE, val |-> 400]
      [] value_str = "4.0" -> [ok |-> TRUE, val |-> 400]
      [] value_str = "4.10" -> [ok |-> TRUE, val |-> 410]
      [] OTHER -> [ok |-> FALSE, val |-> 0]

Obs(date, value) == [date |-> date, value |-> value]

\* the observations a response is made of (obs.get gives None when missing)
ObsKinds ==
    {Obs("2025-01-01", "4.00"), Obs("2025-01-02", "."),
     Obs("2025-01-03", "4.10"), Obs("2025-1-3", "4.0"),
     Obs(Absent, "4.00"), Obs("", "4.00"),
     Obs("2025-01-01", Absent), Obs("2025-01-01", ""),
     Obs("2025-13-45", "4.00"), Obs("2025-01-01", "abc")}

ObsLists == UNION {[1..k -> ObsKinds] : k \in 0..MaxObs}

MacroDataPoint(series_id, dt, val) ==
    [series_id |-> series_id, timestamp |-> dt, value |-> val]

\* the loop that leaves at the first observation it cannot use
FredParseObservationsStopAtMissing(series_id, observations) ==
    LET P[k \in 0..Len(observations)] ==
            IF k = 0 THEN [points |-> << >>, stopped |-> FALSE]
            ELSE LET o == observations[k]
                     dt == ParseDate(o.date)
                     val == ParseDecimal(o.value)
                 IN IF P[k - 1].stopped THEN P[k - 1]
                    ELSE IF o.date \in {Absent, ""} \/ o.value \in {Absent, "", "."}
                    THEN [points |-> P[k - 1].points, stopped |-> TRUE]
                    ELSE IF ~dt.ok \/ ~val.ok
                    THEN [points |-> P[k - 1].points, stopped |-> TRUE]
                    ELSE [points |-> Append(P[k - 1].points,
                                            MacroDataPoint(series_id, dt.val, val.val)),
                          stopped |-> FALSE]
    IN P[Len(observations)].points

\* the loop over the observations of get_time_series
FredParseObservations(series_id, observations) ==
    LET P[k \in 0..Len(observations)] ==
            IF k = 0 THEN << >>
            ELSE LET o == observations[k]
                     dt == ParseDate(o.date)
                     val == ParseDecimal(o.value)
                 IN IF o.date \in {Absent, ""} \/ o.value \in {Absent, "", "."}
                    THEN P[k - 1]
                    ELSE IF ~dt.ok \/ ~val.ok THEN P[k - 1]
                    ELSE Append(P[k - 1], MacroDataPoint(series_id, dt.val, val.val))
    IN P[Len(observations)]

\* what a provider call did: the value returned or the exception raised,
\* whether the HTTP client was created, and the number of requests sent
FredOutcome(result, raised, created, requests, points) ==
    [result |-> result, raised |-> raised, client_created |-> created,
     requests |-> requests, points |-> points]

\* is_available without the test of the API key
FredIsAvailableUnguarded(api_key, client) ==
    CASE client = "client_raises" -> FredOutcome(FALSE, Absent, FALSE, 0, << >>)
      [] client = "get_raises" -> FredOutcome(FALSE, Absent, TRUE, 1, << >>)
      [] client = "status_200" -> FredOutcome(TRUE, Absent, TRUE, 1, << >>)
      [] OTHER -> FredOutcome(FALSE, Absent, TRUE, 1, << >>)

\* is_available
FredIsAvailable(api_key, client) ==
    IF api_key \in {Absent, ""} THEN FredOutcome(FALSE, Absent, FALSE, 0, << >>)
    ELSE CASE client = "client_raises" -> FredOutcome(FALSE, Absent, FALSE, 0, << >>)
           [] client = "get_raises" -> FredOutcome(FALSE, Absent, TRUE, 1, << >>)
           [] client = "status_200" -> FredOutcome(TRUE, Absent, TRUE, 1, << >>)
           [] OTHER -> FredOutcome(FALSE, Absent, TRUE, 1, << >>)

\* get_time_series
FredGetTimeSeries(api_key, client, series_id, observations) ==
    IF api_key \in {Absent, ""}
    THEN FredOutcome(FALSE, "RuntimeError", FALSE, 0, << >>)
    ELSE CASE client = "client_raises" ->
                FredOutcome(FALSE, "Exception", FALSE, 0, << >>)
           [] client = "get_raises" ->
                FredOutcome(FALSE, "Exception", TRUE, 1, << >>)
           [] client = "status_500" ->
                FredOutcome(FALSE, "HTTPStatusError", TRUE, 1, << >>)
           [] OTHER ->
                FredOutcome(TRUE, Absent, TRUE, 1,
                            FredParseObservations(series_id, observations))

(***************************************************************************)
(* Rule based side: one action per operation, each a single call made in   *)
(* the initial state with arguments drawn from the sets above.  The        *)
(* provider's get_historical_data either returns the price history or      *)
(* raises: raised is Absent or the str() of the exception, and a call      *)
(* whose fetch raised has no prices (n = 0).                               *)
(***************************************************************************)
FetchOutcomes == {Absent} \cup ErrMsgs

DetectTrend ==
    /\ op = "none"
    /\ \E n \in 0..MaxPoints, shape \in Shapes, s \in ShortChoices,
       l \in LongChoices, m \in Momenta, raised \in FetchOutcomes :
        /\ n > 0 => Sign(m) = Sign(PriceAt(shape, n) - PriceAt(shape, 1))
        /\ n = 0 => (m = 0 /\ shape = "flat")
        /\ raised # Absent => n = 0
        /\ op' = "trend"
        /\ args' = [n |-> n, shape |-> shape, short |-> s, long |-> l, m |-> m,
                    raised |-> raised]
        /\ ret' = IF raised # Absent THEN TrendExcept(raised)
                  ELSE TrendExecute(Series(shape, n), s, l, m)
        /\ UNCHANGED <<macroVars, containerVars>>

DetectVolatility ==
    /\ op = "none"
    /\ \E n \in 0..MaxPoints, shape \in Shapes, w \in VolWindowChoices,
       profile \in VolProfiles, raised \in FetchOutcomes :
        /\ (n = 0 \/ shape = "flat") => profile = "level"
        /\ n = 0 => shape = "flat"
        /\ raised # Absent => n = 0
        /\ op' = "volatility"
        /\ args' = [n |-> n, shape |-> shape, window |-> w, profile |-> profile,
                    raised |-> raised]
        /\ ret' = IF raised # Absent THEN VolatilityExcept(raised)
                  ELSE VolatilityExecute(Series(shape, n), w, profile)
        /\ UNCHANGED <<macroVars, containerVars>>

VolLists == UNION {[1..k -> 0..MaxVol] : k \in 0..MaxHist}

ClassifyVolatility ==
    /\ op = "none"
    /\ \E v \in 0..MaxVol, h \in VolLists :
        /\ op' = "classify"
        /\ args' = [v |-> v, hist |-> h]
        /\ ret' = [sigma |-> ClassifyVolatilityRegime(v, h),
                   percentile |-> ClassifyVolatilityRegimePercentile(v, h)]
        /\ UNCHANGED <<macroVars, containerVars>>

DetectCycles ==
    /\ op = "none"
    /\ \E n \in 0..MaxPoints, shape \in CycleShapes, vshape \in VolumeShapes,
       raised \in FetchOutcomes :
        /\ n = 0 => (shape = "flat" /\ vshape = "steady")
        /\ raised # Absent => n = 0
        /\ op' = "cycles"
        /\ args' = [n |-> n, shape |-> shape, volume |-> vshape,
                    raised |-> raised]
        /\ ret' = IF raised # Absent THEN CyclesExcept(raised)
                  ELSE CyclesExecute(Series(shape, n), Volumes(vshape, n))
        /\ UNCHANGED <<macroVars, containerVars>>

ComputeSeriesMetrics ==
    /\ op = "none"
    /\ \E n \in 0..MaxSeriesPoints, shape \in ValueShapes :
        /\ op' = "series_metrics"
        /\ args' = [n |-> n, shape |-> shape]
        /\ ret' = SeriesMetricsOf(Points(shape, n), LookbackPoints)
        /\ UNCHANGED <<macroVars, containerVars>>

\* window of a direct call of _calculate_volatility
RollingWindows == {1, 2, 3, 5, 20}

RollingVolatility ==
    /\ op = "none"
    /\ \E n \in 0..MaxPoints, shape \in Shapes, w \in RollingWindows,
       profile \in VolProfiles :
        /\ (n = 0 \/ shape = "flat") => profile = "level"
        /\ n = 0 => shape = "flat"
        /\ op' = "rolling_volatility"
        /\ args' = [n |-> n, shape |-> shape, window |-> w, profile |-> profile]
        /\ ret' = [vols |-> CalculateVolatility(Series(shape, n), w, profile)]
        /\ UNCHANGED <<macroVars, containerVars>>

LogReturns ==
    /\ op = "none"
    /\ \E prices \in PriceLists :
        /\ op' = "log_returns"
        /\ args' = [prices |-> prices]
        /\ ret' = [raised |-> Absent, returns |-> CalculateLogReturns(prices)]
        /\ UNCHANGED <<macroVars, containerVars>>

EwmaVolatility ==
    /\ op = "none"
    /\ \E prices \in PriceLists :
        /\ op' = "ewma_volatility"
        /\ args' = [prices |-> prices]
        /\ ret' = [vols |-> CalculateEwmaVolatility(prices, LambdaParam)]
        /\ UNCHANGED <<macroVars, containerVars>>

CallFredIsAvailable ==
    /\ op = "none"
    /\ \E api_key \in ApiKeys, client \in ClientBehaviours :
        /\ op' = "is_available"
        /\ args' = [api_key |-> api_key, client |-> client]
        /\ ret' = FredIsAvailable(api_key, client)
        /\ UNCHANGED <<macroVars, containerVars>>

CallFredGetTimeSeries ==
    /\ op = "none"
    /\ \E api_key \in ApiKeys, client \in ClientBehaviours,
       series_id \in SeriesIds, observations \in ObsLists :
        /\ (api_key \in {Absent, ""} \/ client # "status_200") =>
              observations = << >>
        /\ op' = "get_time_series"
        /\ args' = [api_key |-> api_key, client |-> client,
                    series_id |-> series_id, observations |-> observations]
        /\ ret' = FredGetTimeSeries(api_key, client, series_id, observations)
        /\ UNCHANGED <<macroVars, containerVars>>

Init == MacroInit /\ RegimeInit /\ ContainerInit

Next ==
    \/ DetectTrend
    \/ DetectVolatility
    \/ ClassifyVolatility
    \/ DetectCycles
    \/ RollingVolatility
    \/ ComputeSeriesMetrics
    \/ LogReturns
    \/ EwmaVolatility
    \/ CallFredIsAvailable
    \/ CallFredGetTimeSeries

Spec == Init /\ [][Next]_vars

SpecContainer == Init /\ [][NextContainer]_vars

(***************************************************************************)
(* Claims about the macro aggregator (checked under SpecMacro).            *)
(***************************************************************************)
CallsOf(c, method) ==
    {i \in 1..Len(calls) : calls[i].cat = c /\ calls[i].call = method}

\* C1: for every included category whose health check returned False, the
\* returned envelope has success == True and carries that category's result
\* with the fallback tag ("yfinance"), and no get_time_series call was made
\* for the category, whatever happened in the other categories.
C1_FallbackWhenUnavailable ==
    mpc = "done" =>
        \A c \in include :
            health[c] = "false" =>
                /\ envelope.success
                /\ c \in DOMAIN envelope.data
                /\ envelope.data[c].source = "yfinance"
                /\ CallsOf(c, "get_time_series") = {}

\* C2: execute never propagates an exception: whatever the providers do
\* (is_available and get_provider_name included), a running call can always
\* take its next step and ends by returning a ToolResult envelope, a failure
\* envelope carrying no data and an error message.
C2_ExecuteAlwaysReturns ==
    /\ envelope.outcome \in {"none", "returned"}
    /\ (mpc = "done") <=> (envelope.outcome = "returned")
    /\ mpc = "running" => ENABLED NextMacro
    /\ (envelope.outcome = "returned" /\ ~envelope.success) =>
          (envelope.data_none /\ envelope.error \notin {Absent, ""})

C2_Witness ==
    /\ mpc = "done"
    /\ envelope.outcome = "returned"
    /\ ~envelope.success
    /\ \E i \in 1..Len(calls) :
          calls[i].call = "get_provider_name" /\ calls[i].raised

\* C3: category independence: when execute returns, every included category
\* has its own result in the returned data, also when a provider raised
\* while some category was evaluated (never success == False, data == None).
C3_CategoryIndependence ==
    mpc = "done" =>
        /\ envelope.success
        /\ ~envelope.data_none
        /\ DOMAIN envelope.data = include

\* C4: when is_available() returned False for the rates block, the rates
\* result has the fallback tag, is available exactly when the ^TNX fetch
\* returned at least 2 prices without raising, and otherwise carries
\* available == False with a non-empty error string.
C4_RatesProxyAvailability ==
    ("rates" \in DOMAIN data /\ health["rates"] = "false") =>
        LET r == data["rates"]
            tnx == calls[CHOOSE i \in CallsOf("rates", "get_historical_data") : TRUE]
        IN /\ r.source = "yfinance"
           /\ r.available <=> (~tnx.raised /\ tnx.n >= 2)
           /\ ~r.available => r.error \notin {Absent, ""}

\* C15: per-category call ordering: the calls of one category happen in the
\* order health check (is_available, exactly once), primary get_time_series
\* calls (only after the health check returned True), fallback
\* get_historical_data calls; a fallback call is issued only after the
\* health check returned False or a primary fetch of the category raised,
\* never when all its primary fetches returned normally.
C15_CallOrdering ==
    \A c \in CategorySet :
        LET hc == CallsOf(c, "is_available")
            prim == CallsOf(c, "get_time_series")
            fall == CallsOf(c, "get_historical_data")
            all == {i \in 1..Len(calls) : calls[i].cat = c}
        IN /\ Cardinality(hc) <= 1
           /\ all # {} => \E h \in hc : \A i \in all : h <= i
           /\ \A i \in prim :
                 \E h \in hc : h < i /\ ~calls[h].raised /\ calls[h].n = 1
           /\ \A i \in prim : \A j \in fall : i < j
           /\ \A j \in fall :
                 \/ \E h \in hc : h < j /\ ~calls[h].raised /\ calls[h].n = 0
                 \/ \E i \in prim : i < j /\ calls[i].raised
           /\ (Cardinality(prim) = Len(FredSeries(c))
                 /\ \A i \in prim : ~calls[i].raised) => fall = {}

C15_Witness ==
    /\ mpc = "done"
    /\ \E c \in include :
          /\ \E i \in CallsOf(c, "get_time_series") : ~calls[i].raised
          /\ \E i \in CallsOf(c, "get_time_series") : calls[i].raised
          /\ CallsOf(c, "get_historical_data") # {}
    /\ \E c \in include :
          /\ Cardinality(CallsOf(c, "get_time_series")) = Len(FredSeries(c))
          /\ CallsOf(c, "get_historical_data") = {}

\* C16: non-blocking categories: a provider call of one category that fails
\* does not cancel the other included categories (when execute returns,
\* the provider calls of every included category were issued), and one
\* that is still pending, and may never return, does not block them (every
\* other included category has its result or had its calls issued).
C16_NonBlockingCategories ==
    /\ mpc = "done" =>
          \A c \in include : CallsOf(c, "is_available") # {}
    /\ mpc = "running" =>
          \A d \in include \ {cur} :
              d \in DOMAIN data \/ CallsOf(d, "is_available") # {}

\* C24: rates interpretation on the primary path: when the 10Y series has a
\* 20-observation delta, 10y_trend is steady iff the delta is at most 15 bps
\* in absolute value (15 included), rising iff it is above 15 bps, falling
\* iff below -15 bps, and long_duration_pressure is muted exactly when the
\* trend is steady; with fewer than 21 points no interpretation is attached.
C24_RatesInterpretation ==
    ("rates" \in DOMAIN data /\ data["rates"].source = "fred") =>
        LET r == data["rates"]
            teny == r.series["10y_nominal"]
        IN /\ teny.has_change =>
                 /\ r.interpretation = "steady" <=>
                       (-15 <= teny.change /\ teny.change <= 15)
                 /\ r.interpretation = "rising" <=> teny.change > 15
                 /\ r.interpretation = "falling" <=> teny.change < -15
                 /\ r.pressure = "muted" <=> r.interpretation = "steady"
                 /\ r.pressure \in {"muted", "elevated"}
           /\ teny.data_points <= LookbackPoints =>
                 (r.interpretation = Absent /\ r.pressure = Absent)

C24_Witness ==
    /\ "rates" \in DOMAIN data
    /\ data["rates"].source = "fred"
    /\ data["rates"].series["10y_nominal"].has_change
    /\ data["rates"].series["10y_nominal"].change = 15
    /\ data["rates"].interpretation = "steady"
    /\ data["rates"].pressure = "muted"

ProxyKeys == {"10y_nominal_proxy", "hyg_lqd_ratio", "uso_proxy"}

SeqRange(f) == {f[i] : i \in 1..Len(f)}

\* C26: a category result never mixes sources: when a primary
\* get_time_series call of a category raised, also after earlier primary
\* calls of that category succeeded, the category result carries the
\* fallback tag and only fallback-derived series; and a rates result tagged
\* as primary has an entry for each of the seven configured rate series.
C26_NoMixedSources ==
    \A c \in DOMAIN data :
        /\ (\E i \in CallsOf(c, "get_time_series") : calls[i].raised) =>
              /\ data[c].source = "yfinance"
              /\ DOMAIN data[c].series \subseteq ProxyKeys
        /\ data[c].source = "fred" =>
              DOMAIN data[c].series = SeqRange(FredSeries(c))
        /\ (c = "rates" /\ data[c].source = "fred") =>
              Cardinality(DOMAIN data[c].series) = 7

C26_Witness ==
    /\ "rates" \in DOMAIN data
    /\ \E i, j \in CallsOf("rates", "get_time_series") :
          i < j /\ ~calls[i].raised /\ calls[j].raised
    /\ data["rates"].source = "yfinance"
    /\ data["rates"].available
    /\ DOMAIN data["rates"].series = {"10y_nominal_proxy"}

\* C27: empty primary data does not trigger the fallback: when the health
\* check returned True and every primary get_time_series call of a category
\* returned normally, also with zero data points, the category result is
\* tagged as primary with available == True at category level (the series
\* without points carry available == False), and the fallback market
\* provider is never called for the category.
C27_EmptyPrimaryNoFallback ==
    \A c \in DOMAIN data :
        (/\ health[c] = "true"
         /\ \A i \in CallsOf(c, "get_time_series") : ~calls[i].raised) =>
            /\ data[c].source = "fred"
            /\ data[c].available
            /\ \A k \in DOMAIN data[c].series :
                  data[c].series[k].data_points = 0 <=>
                      ~data[c].series[k].available
            /\ CallsOf(c, "get_historical_data") = {}

C27_Witness ==
    /\ "credit" \in DOMAIN data
    /\ health["credit"] = "true"
    /\ data["credit"].source = "fred"
    /\ data["credit"].available
    /\ \A k \in DOMAIN data["credit"].series :
          ~data["credit"].series[k].available
    /\ DOMAIN data["credit"].series = {"hy_oas_bps", "ig_oas_bps"}
    /\ CallsOf("credit", "get_historical_data") = {}

(***************************************************************************)
(* Claims about the rule based tools (checked under Spec).                 *)
(***************************************************************************)
\* C5: window invariant: after the adaptive step of the trend tool (n >= 10)
\* and of the cycle tool (n >= 20), for every requested window pair, the
\* windows used satisfy short < long, short <= n and long <= n.
C5_WindowInvariant ==
    ((op = "trend" /\ args.n >= MinTrendPoints) \/
     (op = "cycles" /\ args.n >= MinCyclePoints)) =>
        /\ ret.success
        /\ ret.short_used < ret.long_used
        /\ ret.short_used <= args.n
        /\ ret.long_used <= args.n

\* C6: insufficient-data boundary of the trend and volatility tools: for
\* every requested window, exactly 9 points give a failure envelope and
\* exactly 10 points give a success envelope.
C6_InsufficientDataBoundary ==
    op \in {"trend", "volatility"} =>
        /\ args.n = 9 => ~ret.success
        /\ args.n = 10 => ret.success

Tier(confidence) ==
    CASE confidence = "low" -> 1
      [] confidence = "medium" -> 2
      [] confidence = "high" -> 3

\* C7 as stated: with the MA ordering fixed, a larger adj_momentum never
\* gets a lower confidence tier (low < medium < high), for every ordering.
C7_MonotonicConfidence ==
    (op = "trend" /\ ret.success) =>
        \A b \in Momenta :
            args.m <= b =>
                Tier(ret.confidence) <= Tier(ClassifyTrend(ret.ordering, b).confidence)

\* C7 as amended: with the MA ordering fixed, a larger adj_momentum never
\* gets a lower confidence tier when price > short-MA > long-MA, for any
\* other ordering and for an undefined MA; when price < short-MA < long-MA
\* the thresholds are mirrored and a larger adj_momentum never gets a higher
\* tier.
C7_MonotonicConfidenceAmended ==
    (op = "trend" /\ ret.success) =>
        \A b \in Momenta :
            args.m <= b =>
                IF ret.ordering = "bear"
                THEN Tier(ret.confidence) >= Tier(ClassifyTrend(ret.ordering, b).confidence)
                ELSE Tier(ret.confidence) <= Tier(ClassifyTrend(ret.ordering, b).confidence)

C7_Witness ==
    /\ op = "trend"
    /\ ret.success
    /\ ret.ordering = "bear"
    /\ args.m < -100
    /\ ret.confidence = "high"
    /\ ClassifyTrend(ret.ordering, 0).confidence = "low"

\* C8: scenario 1: the trend tool with the default windows (50, 200) on the
\* 50 prices 100, 102, ..., 198 (whose volatility scaled momentum is above
\* 1.0) returns success with regime bull and confidence medium or high.
C8_Scenario1 ==
    (op = "trend" /\ args.shape = "up" /\ args.n = 50 /\ args.short = 50
        /\ args.long = 200 /\ args.m > 100) =>
        /\ ret.success
        /\ ret.regime = "bull"
        /\ ret.confidence \in {"medium", "high"}

\* C9: zero-variance history under the default strategy: the volatility
\* tool on a constant price series returns regime normal whenever it
\* succeeds, and it succeeds for 60 points with the default window 20;
\* _classify_volatility_regime returns normal whenever the historical
\* volatilities are all equal and the current one equals them.
C9_ZeroVarianceNormal ==
    /\ (op = "volatility" /\ args.shape = "flat" /\ ret.success) =>
          ret.regime = "normal"
    /\ (op = "volatility" /\ args.shape = "flat" /\ args.n = 60 /\ args.window = 20) =>
          ret.success
    /\ (op = "classify" /\ Len(args.hist) > 0
          /\ \A i \in 1..Len(args.hist) : args.hist[i] = args.v) =>
          ret.sigma = "normal"

C9_Witness ==
    /\ op = "volatility"
    /\ args.shape = "flat"
    /\ args.n = 60
    /\ args.window = 20
    /\ ret.success
    /\ ret.valid = 39
    /\ ret.regime = "normal"

VolLabels == {"high", "normal", "low"}

\* C10: exhaustiveness: for every current volatility and every list of
\* historical volatilities, the empty one included, both strategies return
\* a label of {high, normal, low} and neither fails (no index out of range,
\* no division by zero).
C10_ClassificationExhaustive ==
    op = "classify" =>
        /\ ret.sigma \in VolLabels
        /\ ret.percentile \in VolLabels

C10_Witness ==
    /\ op = "classify"
    /\ Len(args.hist) >= 3
    /\ ret.sigma = "normal"
    /\ ret.percentile = "low"

\* C11: cycle classifier minimum: for every non-empty price series of fewer
\* than 20 points the cycle tool returns success == False with the error
\* that cites the 20-data-point minimum, and for every series of 20 or more
\* points it returns success == True.
C11_CycleMinimum ==
    op = "cycles" =>
        /\ args.n \in 1..(MinCyclePoints - 1) =>
              /\ ~ret.success
              /\ ret.error =
                    "Insufficient data for cycle analysis: need at least 20 data points"
        /\ args.n >= MinCyclePoints => ret.success

C11_Witness ==
    /\ op = "cycles"
    /\ args.n = 5
    /\ ~ret.success
    /\ ret.error = "Insufficient data for cycle analysis: need at least 20 data points"

\* C12: uniform envelope invariant: every ToolResult returned by the trend,
\* volatility, cycle and macro execute operations has, when success is
\* False, no data and a populated error string, and, when success is True,
\* data and no error.
C12_UniformEnvelope ==
    /\ op \in {"trend", "volatility", "cycles"} =>
          /\ ~ret.success => (ret.data_none /\ ret.error \notin {Absent, ""})
          /\ ret.success => (~ret.data_none /\ ret.error = Absent)
    /\ envelope.outcome = "returned" =>
          /\ ~envelope.success =>
                (envelope.data_none /\ envelope.error \notin {Absent, ""})
          /\ envelope.success =>
                (~envelope.data_none /\ envelope.error = Absent)

\* C17: trend classification table (first match wins) on MA definedness,
\* the ordering of price / short MA / long MA and the scaled momentum m:
\* an undefined MA gives neutral/low; price > short MA > long MA gives
\* bull/high if m > 1.0, bull/medium if 0.25 < m <= 1.0, else neutral/low;
\* price < short MA < long MA gives bear/high if m < -1.0, bear/medium if
\* -1.0 <= m < -0.25, else neutral/low; every other ordering gives
\* neutral/medium; no other (regime, confidence) pair is ever returned.
C17_TrendTable ==
    (op = "trend" /\ ret.success) =>
        LET n == args.n
            prices == Series(args.shape, n)
            price == prices[n]
            sma == CalculateMovingAverage(prices, ret.short_used)[n]
            lma == CalculateMovingAverage(prices, ret.long_used)[n]
            m == args.m
            defined == sma.defined /\ lma.defined
            rising == /\ defined
                      /\ price * sma.window > sma.sum
                      /\ sma.sum * lma.window > lma.sum * sma.window
            falling == /\ defined
                       /\ price * sma.window < sma.sum
                       /\ sma.sum * lma.window < lma.sum * sma.window
            pair == <<ret.regime, ret.confidence>>
        IN /\ ~defined => pair = <<"neutral", "low">>
           /\ rising =>
                 pair = IF m > 100 THEN <<"bull", "high">>
                        ELSE IF 25 < m /\ m <= 100 THEN <<"bull", "medium">>
                        ELSE <<"neutral", "low">>
           /\ falling =>
                 pair = IF m < -100 THEN <<"bear", "high">>
                        ELSE IF -100 <= m /\ m < -25 THEN <<"bear", "medium">>
                        ELSE <<"neutral", "low">>
           /\ (defined /\ ~rising /\ ~falling) => pair = <<"neutral", "medium">>
           /\ pair \in {<<"bull", "high">>, <<"bull", "medium">>,
                        <<"bear", "high">>, <<"bear", "medium">>,
                        <<"neutral", "low">>, <<"neutral", "medium">>}

C17_Witness ==
    /\ op = "trend"
    /\ ret.success
    /\ ret.ordering = "bull"
    /\ args.m = 100
    /\ ret.regime = "bull"
    /\ ret.confidence = "medium"

\* C18: cycle phase decision tree (first match wins on the latest values):
\* with both MAs defined the phase is markup iff price > short MA > long MA
\* and position > 60; else markdown iff price < short MA < long MA and
\* position < 40; else distribution iff position > 70 and volume ratio >
\* 1.1; else accumulation iff position < 30 and volume ratio < 0.9; else
\* transition; with an undefined MA it is transition.  Markup wins over
\* distribution when both apply, and the phase is one of the five labels.
C18_PhaseTree ==
    (op = "cycles" /\ ret.success) =>
        LET n == args.n
            prices == Series(args.shape, n)
            price == prices[n]
            sma == CalculateMovingAverage(prices, ret.short_used)[n]
            lma == CalculateMovingAverage(prices, ret.long_used)[n]
            pos == PricePosition(prices)
            vol == VolumeRatio(Volumes(args.volume, n))
            defined == sma.defined /\ lma.defined
            markup == /\ price * sma.window > sma.sum
                      /\ sma.sum * lma.window > lma.sum * sma.window
                      /\ pos.num > 60 * pos.den
            markdown == /\ price * sma.window < sma.sum
                        /\ sma.sum * lma.window < lma.sum * sma.window
                        /\ pos.num < 40 * pos.den
            distribution == /\ pos.num > 70 * pos.den
                            /\ 10 * vol.num > 11 * vol.den
            accumulation == /\ pos.num < 30 * pos.den
                            /\ 10 * vol.num < 9 * vol.den
        IN /\ ret.phase =
                 IF ~defined THEN "transition"
                 ELSE IF markup THEN "markup"
                 ELSE IF markdown THEN "markdown"
                 ELSE IF distribution THEN "distribution"
                 ELSE IF accumulation THEN "accumulation"
                 ELSE "transition"
           /\ (defined /\ markup /\ distribution) => ret.phase = "markup"
           /\ ret.phase \in {"markup", "markdown", "distribution",
                             "accumulation", "transition"}

C18_Witness ==
    /\ op = "cycles"
    /\ ret.success
    /\ ret.phase = "markup"
    /\ Above(PricePosition(Series(args.shape, args.n)), 700)
    /\ Above(VolumeRatio(Volumes(args.volume, args.n)), 11)

\* C19: whenever the provider returned fewer than 10 price points (0 to 9,
\* for any requested windows) the trend tool returns a failure envelope
\* whose error is a descriptive message and whose metadata carries the
\* "suggestion" entry.
C19_TrendFailureBelowMinimum ==
    (op = "trend" /\ args.raised = Absent /\ args.n < MinTrendPoints) =>
        /\ ~ret.success
        /\ ret.error \notin {Absent, ""}
        /\ ret.suggestion

\* C20: _calculate_log_returns never raises and returns max(0, n - 1)
\* values for n prices; value i - 1 is ln(price[i] / price[i - 1]) when both
\* prices are positive and 0.0 whenever price[i - 1] is not positive.
C20_LogReturns ==
    op = "log_returns" =>
        LET prices == args.prices
            n == Len(prices)
        IN /\ ret.raised = Absent
           /\ Len(ret.returns) = Max(0, n - 1)
           /\ \A i \in 2..n :
                 /\ (prices[i - 1] > 0 /\ prices[i] > 0) =>
                       ret.returns[i - 1] = Log(prices[i]) - Log(prices[i - 1])
                 /\ prices[i - 1] <= 0 => ret.returns[i - 1] = 0

C22_PercentileZeroVariance ==
    (op = "classify" /\ Len(args.hist) > 0
        /\ \A i \in 1..Len(args.hist) : args.hist[i] = args.v) =>
        /\ ret.percentile = "normal"
        /\ ret.percentile = ret.sigma

\* C23: _series_metrics: for a non-empty list of points with values the
\* result has available == True, latest equal to the last point,
\* data_points equal to the number of points, and change_20d if and only
\* if at least 21 points exist, equal to the last value minus the value 20
\* observations before the last; for an empty list the result is
\* available == False with an error and no other metric.
C23_SeriesMetrics ==
    op = "series_metrics" =>
        /\ (args.n > 0 /\ args.shape # "unset") =>
              /\ ret.available
              /\ ret.latest = [timestamp |-> args.n,
                               value |-> ValueAt(args.shape, args.n)]
              /\ ret.data_points = args.n
              /\ "change_20d" \in ret.keys <=> args.n >= 21
              /\ args.n >= 21 =>
                    ret.change_20d = ValueAt(args.shape, args.n)
                                       - ValueAt(args.shape, args.n - 20)
        /\ args.n = 0 =>
              /\ ~ret.available
              /\ ret.error \notin {Absent, ""}
              /\ ret.keys = {"available", "error"}

C23_Witness ==
    /\ op = "series_metrics"
    /\ args.shape = "bent"
    /\ args.n = 21
    /\ ret.available
    /\ "change_20d" \in ret.keys
    /\ ret.change_20d = 440

\* C25: volatility tool success is monotone in the data length: for a
\* fixed requested volatility_window, if the tool succeeds on n >= 10
\* prices it succeeds on every longer series; with the default window 20
\* every series of at least 10 points has at least one valid volatility
\* observation after the adaptive window step.
C25_SuccessMonotone ==
    (op = "volatility" /\ args.raised = Absent /\ args.n >= MinVolPoints) =>
        /\ ret.success =>
              \A k \in (args.n + 1)..MaxPoints :
                  VolatilityExecute(Series(args.shape, k), args.window,
                                    args.profile).success
        /\ args.window = 20 => (ret.success /\ ret.valid >= 1)

\* C28: _calculate_ewma_volatility is aligned with its input: for n >= 2
\* prices it returns n entries of which exactly the first is unavailable,
\* and entry t (t >= 1, 0-based) is the annualised square root of
\* v_t = decay * v_(t-1) + (1 - decay) * r_t^2, seeded with the square of
\* the first return; for fewer than 2 prices it returns n unavailable
\* entries.
C28_EwmaAlignment ==
    op = "ewma_volatility" =>
        LET prices == args.prices
            n == Len(prices)
            v == EwmaVariance(CalculateLogReturns(prices), LambdaParam)
        IN /\ Len(ret.vols) = n
           /\ n >= 1 => ~ret.vols[1].defined
           /\ \A t \in 1..(n - 1) :
                 /\ ret.vols[t + 1].defined
                 /\ ret.vols[t + 1].num = v[t].num
                 /\ ret.vols[t + 1].scale = v[t].scale

\* C30: adjustment reporting: in a successful result of the trend,
\* volatility and cycle tools parameters_adjusted is True exactly when a
\* window actually used differs from the requested one (for cycles: from
\* the standard 20 / 50), and the "note" entry is present exactly when
\* parameters_adjusted is True; whenever the volatility or the cycle tool
\* took its data-limited shrinking branch, parameters_adjusted is True.
C30_AdjustmentReporting ==
    /\ (op = "trend" /\ ret.success) =>
          /\ ret.parameters_adjusted <=>
                (ret.short_used # args.short \/ ret.long_used # args.long)
          /\ ret.note <=> ret.parameters_adjusted
    /\ (op = "volatility" /\ ret.success) =>
          /\ ret.parameters_adjusted <=> (ret.window_used # args.window)
          /\ ret.note <=> ret.parameters_adjusted
          /\ args.n < args.window + 1 => ret.parameters_adjusted
    /\ (op = "cycles" /\ ret.success) =>
          /\ ret.parameters_adjusted <=>
                (ret.short_used # 20 \/ ret.long_used # 50)
          /\ ret.note <=> ret.parameters_adjusted
          /\ args.n < StandardCyclePoints => ret.parameters_adjusted

\* a trend call whose long window alone was shrunk
C30_Witness ==
    /\ op = "trend"
    /\ ret.success
    /\ ret.short_used = args.short
    /\ ret.long_used < args.long
    /\ ret.parameters_adjusted
    /\ ret.note

(***************************************************************************)
(* Claims about the container registry (checked under SpecContainer).      *)
(***************************************************************************)
\* C29: in any sequence of get_container / set_container / reset_container
\* calls, get_container(fred_api_key=k) with a key returns a newly created
\* container and leaves the global container unchanged, so that a key-less
\* get_container() never returns a container get_container created for a
\* caller-supplied key; key-less calls return the global instance that was
\* in place.  (A keyed container the caller itself installed through
\* set_container is not counted against the claim.)
C29_RegistryFrame ==
    /\ (last.call = "get_container" /\ last.key # Absent) =>
          /\ last.created
          /\ last.returned = Len(containers)
          /\ _container = last.before
    /\ (last.call = "get_container" /\ last.key = Absent) =>
          /\ \/ containers[last.returned].key = Absent
             \/ containers[last.returned].installed
          /\ last.before # 0 => last.returned = last.before

(***************************************************************************)
(* Claims about the FRED provider (checked under Spec).                    *)
(***************************************************************************)
\* C13: with no API key configured the provider never issues an HTTP
\* request: get_time_series raises RuntimeError and is_available returns
\* False, both without creating or using the client; and is_available
\* never raises, whatever the client does.
C13_NoRequestWithoutKey ==
    /\ (op \in {"is_available", "get_time_series"}
          /\ args.api_key \in {Absent, ""}) =>
          /\ ret.requests = 0
          /\ ~ret.client_created
          /\ op = "get_time_series" => ret.raised = "RuntimeError"
          /\ op = "is_available" => (ret.raised = Absent /\ ret.result = FALSE)
    /\ op = "is_available" => ret.raised = Absent

C13_Witness ==
    /\ op = "is_available"
    /\ args.api_key = Absent
    /\ args.client = "status_200"
    /\ ret.result = FALSE
    /\ ret.requests = 0

\* whether an observation has a non-empty date, a non-empty value other
\* than "." and a date and a number that parse
Usable(o) ==
    /\ o.date \notin {Absent, ""}
    /\ o.value \notin {Absent, "", "."}
    /\ ParseDate(o.date).ok
    /\ ParseDecimal(o.value).ok

====
